---- MODULE Spec2Model ----
(***************************************************************************)
(* Model of src/Simulation.py: fitness_function, the discrete-event EMS    *)
(* simulation that scores a repositioning policy.                          *)
(*                                                                         *)
(* Numbers.  The program computes in floating point; the model uses fixed  *)
(* point integers:                                                         *)
(*   - times and durations are in hundredths of a minute,                  *)
(*   - distances are in hundredths of a kilometre,                         *)
(*   - coverage is in percent, lost_calls of the result in hundredths.     *)
(* Positions.  A (latitude, longitude) pair is a named point: "S1".."S4"   *)
(* are the first entries of station_lat/station_lon, "H0".."H4" the five   *)
(* hospitals, "P1" and "P2" two call sites inside the bounding box of      *)
(* synthetic_call_locations.  dist_table holds distance_km between them    *)
(* and travel_table holds get_travel_time_minutes of those distances, both *)
(* computed with the formulas of the source and rounded.                   *)
(* Randomness.  Every draw from random / np.random is a choice from the    *)
(* (bounded) support of its distribution; rng counts the draws taken from  *)
(* each of the two process-wide generators since they were seeded at       *)
(* import (lines 17-19), which is the generator state.                     *)
(***************************************************************************)
EXTENDS Integers, Sequences, FiniteSets, TLC

VARIABLES
  primary_list,      \* argument: the policy sequence
  th,                \* argument: reposition threshold
  AMBULANCE_NUMBER,  \* argument
  STATIONS_NUMBER,   \* argument
  iterations,        \* argument
  reposition_table,  \* line 145
  medians, coverages, losts,   \* line 147
  rep,               \* number of iterations of the for loop of line 149 begun
  ambulances, stations,        \* line 150
  calls,             \* line 159-163
  events,            \* line 168
  current_state,     \* line 173: the availability counter
  travel_times,      \* line 174
  lost,              \* line 175
  popped,            \* line 178: the events popped so far in this replication
  amb,               \* lines 192, 215: id of the ambulance handled last
  rng,               \* draws taken from np.random (np) and random (py)
  pc,                \* "for", "while", "done", "raise"
  result             \* the returned dict

args == <<primary_list, th, AMBULANCE_NUMBER, STATIONS_NUMBER, iterations>>
acc  == <<medians, coverages, losts>>
run  == <<ambulances, stations, calls, events, current_state, travel_times, lost, popped, amb>>
vars == <<args, reposition_table, acc, rep, run, rng, pc, result>>

-----------------------------------------------------------------------------
(* Bounds of the model *)
MaxCalls == 3
MaxAmb   == 2

(* Supports of the inputs and of the random draws *)
Policies           == {<<>>, <<4>>, <<1, 2>>}
ThValues           == 0..3
StationCounts      == {2, 3}
InterarrivalValues == {0, 1008000, 5040000}
TreatValues        == {500}
CallSites          == {"P1", "P2"}
HandoffValues      == {3500}

-----------------------------------------------------------------------------
(* Program constants *)
warmup    == 7 * 24 * 60 * 100
total_sim == 35 * 24 * 60 * 100

station_pos  == <<"S1", "S2", "S3", "S4">>
home_station == <<2, 2, 3>>
hospitals    == <<"H0", "H1", "H2", "H3", "H4">>

dist_table ==
     "P1" :> [S1 |-> 628, S2 |-> 1903, S3 |-> 5, S4 |-> 1556, H0 |-> 673, H1 |-> 1091,
              H2 |-> 82, H3 |-> 1510, H4 |-> 1530, P1 |-> 0, P2 |-> 1846]
  @@ "P2" :> [S1 |-> 1232, S2 |-> 132, S3 |-> 1845, S4 |-> 1376, H0 |-> 1184, H1 |-> 756,
              H2 |-> 1920, H3 |-> 1131, H4 |-> 575, P1 |-> 1846, P2 |-> 0]

travel_table ==
     82 :> 306 @@ 132 :> 372 @@ 575 :> 734 @@ 628 :> 772 @@ 673 :> 804
  @@ 756 :> 864 @@ 1091 :> 1104 @@ 1131 :> 1132 @@ 1184 :> 1170 @@ 1232 :> 1204
  @@ 1376 :> 1308 @@ 1510 :> 1404 @@ 1530 :> 1420 @@ 1556 :> 1438 @@ 1845 :> 1646
  @@ 1846 :> 1648 @@ 1903 :> 1688 @@ 1920 :> 1700

-----------------------------------------------------------------------------
(* Core helpers *)

\* Haversine distance; every call of the program has a call site as one of
\* its two arguments, and the distance is symmetric.
distance_km(p, q) ==
  IF p \in DOMAIN dist_table THEN dist_table[p][q] ELSE dist_table[q][p]

get_travel_time_minutes(d_km) ==
  IF d_km <= 10 THEN 0 ELSE travel_table[d_km]

\* mutant: range(len(primary_list)) with primary_list[:i + 1]
build_table_short(pl) ==
  [i \in 1..Len(pl) |-> SubSeq(pl, 1, i)]

build_table(pl) ==
  [i \in 1..(Len(pl) + 1) |-> SubSeq(pl, 1, i - 1)]

RECURSIVE Sum(_)
Sum(s) == IF s = <<>> THEN 0 ELSE Head(s) + Sum(Tail(s))

Min(s) == CHOOSE x \in {s[i] : i \in DOMAIN s} : \A j \in DOMAIN s : x <= s[j]

\* np.argmin: index (from 0) of the first minimum
argmin(s) ==
  (CHOOSE i \in DOMAIN s :
      /\ \A j \in DOMAIN s : s[i] <= s[j]
      /\ \A j \in 1..(i - 1) : s[j] > s[i]) - 1

\* bisect.bisect_right(a, x, key = time), a list indexed from 0
RECURSIVE bisect_right(_, _, _, _)
bisect_right(a, x, lo, hi) ==
  IF lo < hi
  THEN LET mid == (lo + hi) \div 2
       IN  IF x < a[mid + 1].time
           THEN bisect_right(a, x, lo, mid)
           ELSE bisect_right(a, x, mid + 1, hi)
  ELSE lo

\* mutant: events.append(...) in place of bisect.insort(...)
insort_append(a, ev) == Append(a, ev)

\* mutant: bisect.insort_left, the new event goes before its equals
insort_left(a, ev) ==
  LET k == Cardinality({i \in DOMAIN a : a[i].time < ev.time})
  IN  SubSeq(a, 1, k) \o <<ev>> \o SubSeq(a, k + 1, Len(a))

insort(a, ev) ==
  LET k == bisect_right(a, ev.time, 0, Len(a))
  IN  SubSeq(a, 1, k) \o <<ev>> \o SubSeq(a, k + 1, Len(a))

RECURSIVE insort_all(_, _)
insort_all(a, cs) ==
  IF cs = <<>> THEN a ELSE insort_all(insort(a, Head(cs)), Tail(cs))

-----------------------------------------------------------------------------
(* Fixed stations, hospitals and fleet *)

fixed_stations(stations_n) ==
  [i \in 1..stations_n |-> [id |-> i, pos |-> station_pos[i]]]

\* mutant: the fleet is built once, before the loop of line 149, and reused
fixed_ambulances_reused(ambulance_n) ==
  IF ambulances # <<>>
  THEN ambulances
  ELSE [i \in 1..ambulance_n |->
          [id |-> i - 1, availability |-> 1, pos |-> station_pos[home_station[i] + 1]]]

fixed_ambulances(ambulance_n) ==
  [i \in 1..ambulance_n |->
     [id |-> i - 1, availability |-> 1, pos |-> station_pos[home_station[i] + 1]]]

-----------------------------------------------------------------------------
(* Synthetic calls *)

\* generate_interarrivals: draws while t < total_sim
InterarrivalLists ==
  {ia \in UNION {[1..n -> InterarrivalValues] : n \in 1..MaxCalls} :
      /\ Sum(SubSeq(ia, 1, Len(ia) - 1)) < total_sim
      /\ Sum(ia) >= total_sim}

build_calls(ia, treat_times, coords, hospital_req) ==
  [i \in 1..Len(ia) |->
     [type |-> "call", time |-> Sum(SubSeq(ia, 1, i)), treat |-> treat_times[i],
      pos |-> coords[i], hos |-> hospital_req[i]]]

-----------------------------------------------------------------------------
(* Metrics *)

RECURSIVE sorted(_)
sorted(s) ==
  IF s = <<>> THEN <<>>
  ELSE LET m == Min(s)
           i == CHOOSE k \in DOMAIN s : s[k] = m
       IN  <<m>> \o sorted(SubSeq(s, 1, i - 1) \o SubSeq(s, i + 1, Len(s)))

median(s) ==
  LET t == sorted(s)
      n == Len(s)
  IN  IF n % 2 = 1 THEN t[(n + 1) \div 2] ELSE (t[n \div 2] + t[n \div 2 + 1]) \div 2

coverage(s) == (100 * Cardinality({i \in DOMAIN s : s[i] <= 900})) \div Len(s)

mean(s) == Sum(s) \div Len(s)

-----------------------------------------------------------------------------
NoEvent == [type |-> "none"]

\* line 178: the event popped last
e == IF popped = <<>> THEN NoEvent ELSE popped[Len(popped)]

\* the state of the two generators right after lines 18-19
seeded == [np |-> 0, py |-> 0]

\* lines 145-147, the generators as lines 18-19 leave them, locals unbound
Entered ==
  /\ reposition_table = build_table(primary_list)
  /\ medians = <<>> /\ coverages = <<>> /\ losts = <<>>
  /\ rep = 0
  /\ ambulances = <<>> /\ stations = <<>> /\ calls = <<>> /\ events = <<>>
  /\ current_state = 0 /\ travel_times = <<>> /\ lost = 0
  /\ popped = <<>> /\ amb = -1
  /\ rng = seeded
  /\ pc = "for"
  /\ result = [median_response_time |-> 0, coverage |-> 0, lost_calls |-> 0]

\* a call of fitness_function with one replication, after line 147
Init ==
  /\ primary_list \in Policies
  /\ th \in ThValues
  /\ AMBULANCE_NUMBER \in 0..MaxAmb
  /\ STATIONS_NUMBER \in StationCounts
  /\ iterations = 1
  /\ Entered

\* a call of fitness_function with two replications, after line 147
InitRepl ==
  /\ primary_list = <<1, 2>>
  /\ th = 2
  /\ AMBULANCE_NUMBER = 1
  /\ STATIONS_NUMBER = 3
  /\ iterations = 2
  /\ Entered

\* lines 149-175: one more replication is set up
StartReplication ==
  /\ pc = "for" /\ rep < iterations
  /\ \E ia \in InterarrivalLists :
       \E treat_times \in [1..Len(ia) -> TreatValues],
          coords \in [1..Len(ia) -> CallSites],
          hospital_req \in [1..Len(ia) -> {0, 1}] :
         /\ calls' = build_calls(ia, treat_times, coords, hospital_req)
         /\ events' = insort_all(<<>>, calls')
         /\ rng' = [np |-> rng.np + 4 * Len(ia), py |-> rng.py + Len(ia)]
  /\ ambulances' = fixed_ambulances(AMBULANCE_NUMBER)
  /\ stations' = fixed_stations(STATIONS_NUMBER)
  /\ current_state' = AMBULANCE_NUMBER
  /\ travel_times' = <<>>
  /\ lost' = 0
  /\ rep' = rep + 1
  /\ pc' = "while"
  /\ popped' = <<>>
  /\ UNCHANGED <<args, reposition_table, acc, amb, result>>

-----------------------------------------------------------------------------
(* Dispatch, lines 186-212 *)

\* mutant: the availability filter of line 186 is dropped
free_pool_all(ambs) == ambs

\* lines 186-189: the ambulances flagged available, else the whole fleet
free_pool(ambs) ==
  LET free == SelectSeq(ambs, LAMBDA a : a.availability = 1)
  IN  IF free = <<>> THEN ambs ELSE free

\* line 191
call_dists(free, ev) ==
  [i \in DOMAIN free |-> distance_km(free[i].pos, ev.pos)]

\* mutant: the argmin over the available pool is used as an index of the fleet
nearest_by_fleet_index(free, ev) == argmin(call_dists(free, ev))

\* line 192: id of the ambulance sent
nearest(free, ev) == free[argmin(call_dists(free, ev)) + 1].id

\* mutant: line 195 is dropped, the ambulance sent stays flagged available
dispatched_unflagged(ambs, id, ev) == [ambs EXCEPT ![id + 1].pos = ev.pos]

\* lines 194-196
dispatched(ambs, id, ev) ==
  [ambs EXCEPT ![id + 1] = [@ EXCEPT !.availability = 0, !.pos = ev.pos]]

\* mutant: the scene leg is measured after line 196 has moved the ambulance
scene_travel_after_move(free, ev) ==
  get_travel_time_minutes(distance_km(ev.pos, ev.pos))

\* line 198
scene_travel(free, ev) == get_travel_time_minutes(Min(call_dists(free, ev)))

\* lines 203-204
hospital_travel(ev) ==
  get_travel_time_minutes(Min([i \in DOMAIN hospitals |-> distance_km(ev.pos, hospitals[i])]))

\* mutant: e["time"] > warmup in lines 199 and 205
call_samples_strict(ev, t1, t2) ==
  IF ev.time > warmup
  THEN IF ev.hos = 1 THEN <<t1, t2>> ELSE <<t1>>
  ELSE <<>>

\* lines 199-200, 205-206: the samples a dispatched call records
call_samples(ev, t1, t2) ==
  IF ev.time >= warmup
  THEN IF ev.hos = 1 THEN <<t1, t2>> ELSE <<t1>>
  ELSE <<>>

\* lines 208, 210
finish_time(ev, t1, t2, hosp_treat) ==
  IF ev.hos = 1
  THEN ev.time + t1 + ev.treat + t2 + hosp_treat
  ELSE ev.time + t1 + ev.treat

\* mutant: e["time"] > warmup in line 182
lost_after_strict(n, ev) == IF ev.time > warmup THEN n + 1 ELSE n

\* lines 181-183
lost_after(n, ev) == IF ev.time >= warmup THEN n + 1 ELSE n

\* lines 178-184: a call is popped while no ambulance is counted available
ResolveCallLost ==
  /\ pc = "while" /\ events # <<>>
  /\ Head(events).type = "call"
  /\ current_state = 0
  /\ popped' = Append(popped, Head(events))
  /\ events' = Tail(events)
  /\ lost' = lost_after(lost, Head(events))
  /\ UNCHANGED <<args, reposition_table, acc, rep, ambulances, stations, calls,
                 current_state, travel_times, amb, rng, pc, result>>

\* lines 178-180, 186-212: a call is popped and an ambulance is sent
ResolveCallDispatch ==
  /\ pc = "while" /\ events # <<>>
  /\ Head(events).type = "call"
  /\ current_state # 0
  /\ LET ev   == Head(events)
         free == free_pool(ambulances)
         id   == nearest(free, ev)
         t1   == scene_travel(free, ev)
         t2   == hospital_travel(ev)
     IN  /\ popped' = Append(popped, ev)
         /\ amb' = id
         /\ ambulances' = dispatched(ambulances, id, ev)
         /\ current_state' = current_state - 1
         /\ travel_times' = travel_times \o call_samples(ev, t1, t2)
         /\ \E hosp_treat \in HandoffValues :
              /\ events' = insort(Tail(events),
                                  [type |-> "free", time |-> finish_time(ev, t1, t2, hosp_treat),
                                   amb_id |-> id])
              /\ rng' = IF ev.hos = 1 THEN [rng EXCEPT !.np = @ + 1] ELSE rng
  /\ UNCHANGED <<args, reposition_table, acc, rep, stations, calls, lost, pc, result>>

-----------------------------------------------------------------------------
(* Completion and reposition, lines 214-234 *)

\* lines 221-225
candidates(table, cs, stations_n) ==
  LET idx == IF Len(table) - 1 < cs THEN Len(table) - 1 ELSE cs
      c1  == IF table[idx + 1] # <<>> THEN table[idx + 1] ELSE <<1, 2, 3>>
      c2  == SelectSeq(c1, LAMBDA c : 1 <= c /\ c <= stations_n)
  IN  IF c2 = <<>> THEN <<1, 2, 3>> ELSE c2

\* mutant: the first candidate is taken, lines 228-231 are skipped
target_station_first(cands, sts, p) == cands[1]

\* lines 228-232
target_station(cands, sts, p) ==
  cands[argmin([i \in DOMAIN cands |-> distance_km(p, sts[cands[i]].pos)]) + 1]

\* mutant: the test is made on the counter before line 217, with <=
reposition_pre_increment(cs, t) == cs - 1 <= t

\* mutant: counter <= th in line 220
reposition_at_threshold(cs, t) == cs <= t

\* mutant: the test of line 220 is made before the increment of line 217
reposition_before_increment(cs, t) == cs - 1 < t

\* line 220
reposition_triggered(cs, t) == cs < t

\* lines 178, 214-234: a completion is popped
ResolveFree ==
  /\ pc = "while" /\ events # <<>>
  /\ Head(events).type = "free"
  /\ LET ev    == Head(events)
         id    == ev.amb_id
         cs    == current_state + 1
         freed == [ambulances EXCEPT ![id + 1].availability = 1]
         cands == candidates(reposition_table, cs, Len(stations))
     IN  /\ popped' = Append(popped, ev)
         /\ amb' = id
         /\ events' = Tail(events)
         /\ current_state' = cs
         /\ IF ~reposition_triggered(cs, th)
            THEN ambulances' = freed /\ pc' = pc
            ELSE IF \E i \in DOMAIN cands : cands[i] > Len(stations)
                 \* stations[cid - 1] raises IndexError (line 230)
                 THEN ambulances' = freed /\ pc' = "raise"
                 ELSE /\ ambulances' =
                           [freed EXCEPT ![id + 1].pos =
                              stations[target_station(cands, stations, freed[id + 1].pos)].pos]
                      /\ pc' = pc
  /\ UNCHANGED <<args, reposition_table, acc, rep, stations, calls, travel_times,
                 lost, rng, result>>

-----------------------------------------------------------------------------
(* Metrics of a replication and the result, lines 239-253 *)

\* mutant: len(travel_times) > 1 in line 239
replication_median_single(tt) == IF Len(tt) > 1 THEN median(tt) ELSE 99900

replication_median(tt) == IF tt # <<>> THEN median(tt) ELSE 99900
replication_coverage(tt) == IF tt # <<>> THEN coverage(tt) ELSE 0

\* lines 177, 239-247: the event list is empty
EndReplication ==
  /\ pc = "while" /\ events = <<>>
  /\ medians' = Append(medians, replication_median(travel_times))
  /\ coverages' = Append(coverages, replication_coverage(travel_times))
  /\ losts' = Append(losts, lost)
  /\ pc' = "for"
  /\ UNCHANGED <<args, reposition_table, rep, run, rng, result>>

\* lines 149, 249-253
Return ==
  /\ pc = "for" /\ rep = iterations
  /\ result' = [median_response_time |-> mean(medians),
                coverage |-> mean(coverages),
                lost_calls |-> (100 * Sum(losts)) \div Len(losts)]
  /\ pc' = "done"
  /\ UNCHANGED <<args, reposition_table, acc, rep, run, rng>>

Next ==
  \/ StartReplication
  \/ ResolveCallLost
  \/ ResolveCallDispatch
  \/ ResolveFree
  \/ EndReplication
  \/ Return

Spec == Init /\ [][Next]_vars

SpecRepl == InitRepl /\ [][Next]_vars

-----------------------------------------------------------------------------
(* Properties *)

Remove(s, k) == SubSeq(s, 1, k - 1) \o SubSeq(s, k + 1, Len(s))

\* the loop of line 177 is about to pop a call / a completion
CallNext == pc = "while" /\ events # <<>> /\ Head(events).type = "call"
FreeNext == pc = "while" /\ events # <<>> /\ Head(events).type = "free"

\* travel time of the leg from point p to point q
leg(p, q) == get_travel_time_minutes(distance_km(p, q))

\* travel time from a call site to the nearest hospital
hospital_leg(p) ==
  get_travel_time_minutes(Min([i \in DOMAIN hospitals |-> distance_km(p, hospitals[i])]))

\* C1: a call at or past the warm-up boundary that is popped while the
\* availability counter is 0 adds exactly 1 to the lost-call counter, is
\* removed from the queue with no Free event inserted, records no travel-time
\* sample and leaves the fleet and the counter as they were.
C1_LostCall ==
  [][(CallNext /\ Head(events).time >= warmup /\ current_state = 0)
       => /\ lost' = lost + 1
          /\ events' = Tail(events)
          /\ travel_times' = travel_times
          /\ ambulances' = ambulances
          /\ current_state' = current_state]_vars

\* a call exactly on the warm-up boundary has just been lost while the only
\* ambulance is out on the call before it
C1_Witness ==
  /\ pc = "while" /\ AMBULANCE_NUMBER = 1
  /\ e.type = "call" /\ e.time = warmup
  /\ lost = 1 /\ current_state = 0
  /\ \E i \in DOMAIN events : events[i].type = "free"

\* C2: a call popped while the counter is positive inserts exactly one Free
\* event, for the ambulance sent, at call.time + scene_travel + treatment
\* (+ hospital_travel + hand-off when the call needs a hospital), the scene
\* leg being measured from where that ambulance stood before it was moved.
C2_FreeEvent ==
  [][(CallNext /\ current_state > 0)
       => LET ev   == Head(events)
              from == ambulances[amb' + 1].pos
              t1   == leg(from, ev.pos)
              t2   == hospital_leg(ev.pos)
          IN  /\ ambulances'[amb' + 1].availability = 0
              /\ ambulances'[amb' + 1].pos = ev.pos
              /\ \E k \in DOMAIN events' :
                   /\ Remove(events', k) = Tail(events)
                   /\ events'[k].type = "free"
                   /\ events'[k].amb_id = amb'
                   /\ IF ev.hos = 1
                      THEN \E h \in HandoffValues :
                             events'[k].time = ev.time + t1 + ev.treat + t2 + h
                      ELSE events'[k].time = ev.time + t1 + ev.treat]_vars

\* the first call, to P2 with hospital transport, was answered from the home
\* base S3 (18.45 km away) and its completion is scheduled
C2_Witness ==
  /\ pc = "while" /\ AMBULANCE_NUMBER = 2 /\ Len(popped) = 1
  /\ e.type = "call" /\ e.pos = "P2" /\ e.hos = 1
  /\ amb = 0 /\ current_state = 1
  /\ ambulances[amb + 1].pos = "P2"
  /\ \E i \in DOMAIN events :
       /\ events[i].type = "free" /\ events[i].amb_id = amb
       /\ \E h \in HandoffValues :
            events[i].time = e.time + 1646 + e.treat + 734 + h

\* C3: within a replication the times of the popped events never decrease.
C3_PopOrder ==
  \A i, j \in DOMAIN popped : i < j => popped[i].time <= popped[j].time

\* a completion inserted during the run was popped between two calls
C3_Witness ==
  \E i, j, k \in DOMAIN popped :
     /\ i < j /\ j < k
     /\ popped[i].type = "call" /\ popped[j].type = "free" /\ popped[k].type = "call"
     /\ popped[i].time < popped[j].time /\ popped[j].time < popped[k].time

\* C4: whenever a completion triggers a reposition, the candidate list is
\* non-empty and holds only station ids in 1..number of stations, and the
\* evaluation never fails.
C4_RepositionCompletes ==
  /\ pc # "raise"
  /\ (FreeNext /\ current_state + 1 < th)
       => LET c == candidates(reposition_table, current_state + 1, Len(stations))
          IN  /\ c # <<>>
              /\ \A i \in DOMAIN c : 1 <= c[i] /\ c[i] <= Len(stations)

\* C5: every replication starts from the seeded generator state and all
\* replications of an evaluation have the same metrics.
C5_Reproducible ==
  /\ (pc = "for" /\ rep < iterations) => rng = seeded
  /\ \A i, j \in DOMAIN medians :
       /\ medians[i] = medians[j]
       /\ coverages[i] = coverages[j]
       /\ losts[i] = losts[j]

\* C6: with th = 0 an ambulance's position changes only when it is sent to
\* a call, and then to the call site.
C6_NoRepositionAtZero ==
  [][(th = 0 /\ pc = "while")
       => \A i \in DOMAIN ambulances :
            ambulances'[i].pos # ambulances[i].pos
              => /\ CallNext
                 /\ ambulances'[i].availability = 0
                 /\ ambulances'[i].pos = Head(events).pos]_vars

\* th = 0, a completion was resolved with the other ambulance still out,
\* and the freed ambulance stays at its call site
C6_Witness ==
  /\ th = 0 /\ AMBULANCE_NUMBER = 2
  /\ e.type = "free" /\ current_state = 1
  /\ ambulances[amb + 1].availability = 1
  /\ ambulances[amb + 1].pos \in CallSites

\* C7: the ambulance sent is flagged available and nearest to the call among
\* those flagged available, the first such in fleet order; after the dispatch
\* it is busy and at the call site, and the counter is one less.
C7_NearestAvailable ==
  [][(CallNext /\ current_state > 0)
       => LET ev   == Head(events)
              a    == amb' + 1
              d(i) == distance_km(ambulances[i].pos, ev.pos)
          IN  /\ a \in DOMAIN ambulances
              /\ ambulances[a].id = amb'
              /\ ambulances[a].availability = 1
              /\ \A i \in DOMAIN ambulances :
                   ambulances[i].availability = 1
                     => /\ d(a) <= d(i)
                        /\ i < a => d(a) < d(i)
              /\ ambulances'[a].availability = 0
              /\ ambulances'[a].pos = ev.pos
              /\ current_state' = current_state - 1
              /\ \A i \in DOMAIN ambulances : i # a => ambulances'[i] = ambulances[i]]_vars

\* both ambulances were available and the second one, strictly nearer, was sent
C7_Witness ==
  /\ AMBULANCE_NUMBER = 2 /\ e.type = "call"
  /\ amb = 1 /\ current_state = 1
  /\ ambulances[1].availability = 1 /\ ambulances[2].availability = 0
  /\ ambulances[2].pos = e.pos

\* C8: a call before the warm-up boundary changes neither the samples nor
\* the lost-call counter; a dispatched call at or past it appends the scene
\* leg, followed by the hospital leg when the call needs a hospital.
C8_WarmupSamples ==
  [][CallNext
       => LET ev == Head(events)
          IN  /\ ev.time < warmup
                   => travel_times' = travel_times /\ lost' = lost
              /\ (ev.time >= warmup /\ current_state > 0)
                   => LET t1 == leg(ambulances[amb' + 1].pos, ev.pos)
                          t2 == hospital_leg(ev.pos)
                      IN  travel_times' =
                            travel_times \o (IF ev.hos = 1 THEN <<t1, t2>> ELSE <<t1>>)]_vars

\* a dispatched call before the boundary left no sample, the next one, exactly
\* on the boundary and with hospital transport, left two
C8_Witness ==
  /\ Len(popped) = 3
  /\ popped[1].type = "call" /\ popped[1].time < warmup
  /\ popped[2].type = "free"
  /\ e.type = "call" /\ e.time = warmup /\ e.hos = 1
  /\ current_state = 1 /\ AMBULANCE_NUMBER = 2
  /\ Len(travel_times) = 2 /\ lost = 0

\* C9: a replication's metrics are the sentinel pair (999.0, 0.0) exactly when
\* it recorded no travel-time sample, and its lost_calls is its lost-call
\* counter; in particular an empty call stream resolves no event and gives
\* (999.0, 0.0, 0).
C9_Sentinel ==
  (pc \in {"for", "done"} /\ rep >= 1)
    => LET k == Len(medians)
       IN  /\ k = rep /\ Len(coverages) = k /\ Len(losts) = k
           /\ (medians[k] = 99900 /\ coverages[k] = 0) <=> travel_times = <<>>
           /\ losts[k] = lost
           /\ calls = <<>>
                => popped = <<>> /\ medians[k] = 99900 /\ coverages[k] = 0 /\ losts[k] = 0

\* a replication ended without a sample (every call lost)
C9_Witness ==
  /\ pc = "for" /\ rep = 1
  /\ travel_times = <<>> /\ lost > 0
  /\ medians = <<99900>> /\ coverages = <<0>> /\ losts = <<lost>>

\* C10: the table has len(policy) + 1 entries, entry i (from 0) holding the
\* first i elements of the policy, so each entry is a prefix of the next; it
\* is this table in every state of the evaluation.
C10_TablePrefixes ==
  /\ Len(reposition_table) = Len(primary_list) + 1
  /\ \A i \in DOMAIN reposition_table :
       /\ Len(reposition_table[i]) = i - 1
       /\ \A j \in 1..(i - 1) : reposition_table[i][j] = primary_list[j]
  /\ \A i \in 1..(Len(reposition_table) - 1) :
       reposition_table[i] = SubSeq(reposition_table[i + 1], 1, Len(reposition_table[i]))

\* the evaluation of the policy <<1, 2>> has ended, after an ambulance was
\* moved to a station the table named
C10_Witness ==
  /\ pc = "done" /\ primary_list = <<1, 2>>
  /\ reposition_table = << <<>>, <<1>>, <<1, 2>> >>
  /\ \E i \in DOMAIN ambulances : ambulances[i].pos \in {"S1", "S2"}

\* the ambulances flagged available (as indices of the fleet list)
flagged == {i \in DOMAIN ambulances : ambulances[i].availability = 1}

\* C11: in every state between two event resolutions the counter is the
\* number of ambulances flagged available, so it lies between 0 and the fleet
\* size; hence, when a call is dispatched, the pool of line 186 is not empty
\* (the whole-fleet fallback of lines 187-189 is not taken) and the ambulance
\* chosen is flagged available.
C11_CounterLockstep ==
  /\ current_state = Cardinality(flagged)
  /\ 0 <= current_state /\ current_state <= Len(ambulances)
  /\ (CallNext /\ current_state # 0)
       => LET free == free_pool(ambulances)
          IN  /\ SelectSeq(ambulances, LAMBDA a : a.availability = 1) # <<>>
              /\ \A i \in DOMAIN free : free[i].availability = 1
              /\ nearest(free, Head(events)) + 1 \in flagged

\* a call is about to be dispatched while the first ambulance is out: the
\* counter is 1 and only the second ambulance is flagged
C11_Witness ==
  /\ CallNext /\ AMBULANCE_NUMBER = 2
  /\ current_state = 1 /\ flagged = {2}
  /\ \E i \in DOMAIN events : events[i].type = "free" /\ events[i].amb_id = 0

\* lines 221-223: the table entry consulted at counter cs, {1, 2, 3} in its
\* place when it is empty, filtered to the station ids that exist
filtered_entry(cs) ==
  LET last  == Len(reposition_table) - 1
      idx   == IF cs < last THEN cs ELSE last
      entry == reposition_table[idx + 1]
  IN  SelectSeq(IF entry # <<>> THEN entry ELSE <<1, 2, 3>>,
                LAMBDA c : 1 <= c /\ c <= Len(stations))

\* station c[k] is nearest to p among the stations of c, and the first such
nearest_in(c, k, p) ==
  /\ \A j \in DOMAIN c :
       distance_km(p, stations[c[k]].pos) <= distance_km(p, stations[c[j]].pos)
  /\ \A j \in 1..(k - 1) :
       distance_km(p, stations[c[k]].pos) < distance_km(p, stations[c[j]].pos)

\* C12 as stated: a completion with the incremented counter below th puts the
\* freed ambulance at the nearest station (first on ties) of the filtered
\* entry, and the move inserts no event and adds no sample.
C12_NearestOfFiltered ==
  [][(FreeNext /\ current_state + 1 < th)
       => LET a == Head(events).amb_id + 1
              c == filtered_entry(current_state + 1)
          IN  /\ \E k \in DOMAIN c :
                   /\ nearest_in(c, k, ambulances[a].pos)
                   /\ ambulances'[a].pos = stations[c[k]].pos
              /\ events' = Tail(events)
              /\ travel_times' = travel_times]_vars

\* C12, amended: when the filter leaves nothing the candidates are {1, 2, 3}
\* unfiltered; if every candidate is a station the freed ambulance is put at
\* the nearest of them (first on ties), otherwise the station lookup fails
\* and the ambulance is not moved; either way no event is inserted and no
\* sample is added.
C12_NearestOrFail ==
  [][(FreeNext /\ current_state + 1 < th)
       => LET a == Head(events).amb_id + 1
              f == filtered_entry(current_state + 1)
              c == IF f = <<>> THEN <<1, 2, 3>> ELSE f
          IN  /\ IF \A j \in DOMAIN c : c[j] <= Len(stations)
                 THEN /\ pc' = "while"
                      /\ \E k \in DOMAIN c :
                           /\ nearest_in(c, k, ambulances[a].pos)
                           /\ ambulances'[a].pos = stations[c[k]].pos
                 ELSE /\ pc' = "raise"
                      /\ ambulances'[a].pos = ambulances[a].pos
              /\ events' = Tail(events)
              /\ travel_times' = travel_times]_vars

\* policy [4] with 3 stations: the entry filtered to nothing, and the freed
\* ambulance went from its call site P1 to S3, the nearest of {1, 2, 3}
C12_Witness ==
  /\ pc = "while" /\ primary_list = <<4>> /\ STATIONS_NUMBER = 3
  /\ e.type = "free" /\ current_state < th
  /\ \E i \in DOMAIN popped :
       /\ popped[i].type = "call" /\ popped[i].pos = "P1"
       /\ i + 1 = Len(popped)
  /\ ambulances[amb + 1].pos = "S3"

\* C13: resolving a completion flags the ambulance it names available and
\* adds 1 to the counter; the other ambulances, the lost-call counter, the
\* samples and the pending events (the popped one apart) are unchanged, and
\* the freed ambulance stays where it is unless the incremented counter is
\* below th.
C13_FreeFrame ==
  [][FreeNext
       => LET a == Head(events).amb_id + 1
          IN  /\ DOMAIN ambulances' = DOMAIN ambulances
              /\ ambulances'[a].availability = 1
              /\ ambulances'[a].id = ambulances[a].id
              /\ current_state' = current_state + 1
              /\ \A i \in DOMAIN ambulances : i # a => ambulances'[i] = ambulances[i]
              /\ lost' = lost
              /\ travel_times' = travel_times
              /\ events' = Tail(events)
              /\ UNCHANGED <<stations, calls, reposition_table, acc>>
              /\ current_state + 1 >= th
                   => ambulances'[a].pos = ambulances[a].pos]_vars

\* th = 2 and two ambulances: the first one freed was moved to a station, the
\* second completion brought the counter to 2 and left its ambulance at the
\* call site
C13_Witness ==
  /\ pc = "while" /\ th = 2 /\ AMBULANCE_NUMBER = 2
  /\ e.type = "free" /\ current_state = 2
  /\ ambulances[amb + 1].pos \in CallSites
  /\ \E i \in DOMAIN ambulances : i # amb + 1 /\ ambulances[i].pos \in {"S1", "S2"}

\* number of events of type ty in the sequence s
count(s, ty) == Cardinality({i \in DOMAIN s : s[i].type = ty})

\* C14: every call of the stream is popped exactly once and every completion
\* exactly once, at most 2 * len(calls) events in all, and a run that has
\* stopped has an empty queue.
C14_RunCompletes ==
  /\ count(popped, "call") + count(events, "call") = Len(calls)
  /\ count(popped, "free") + count(events, "free") <= count(popped, "call")
  /\ Len(popped) <= 2 * Len(calls)
  /\ (pc # "while" /\ rep >= 1)
       => /\ events = <<>>
          /\ count(popped, "call") = Len(calls)

\* C15: events of equal time are popped in the order of their insertion. The
\* queue built at the start of a replication holds the calls in call-stream
\* order; every pop takes the head and keeps the order of the rest; and the
\* Free event inserted by a dispatch stands after every queued event of the
\* same or an earlier time and before every later one.
C15_StableTies ==
  [][/\ (pc = "for" /\ pc' = "while") => events' = calls'
     /\ (pc = "while" /\ events # <<>> /\ ~(CallNext /\ current_state > 0))
          => events' = Tail(events)
     /\ (CallNext /\ current_state > 0)
          => \E k \in DOMAIN events' :
               /\ Remove(events', k) = Tail(events)
               /\ events'[k].type = "free" /\ events'[k].amb_id = amb'
               /\ \A j \in 1..(k - 1) : events'[j].time <= events'[k].time
               /\ \A j \in (k + 1)..Len(events') : events'[j].time > events'[k].time]_vars

\* two calls of the same time were popped in stream order, the first went to
\* ambulance 0 and the second to ambulance 1, and their completions, of equal
\* time too, are queued in the order of their insertion, before the last call
C15_Witness ==
  /\ pc = "while" /\ Len(popped) = 2 /\ Len(events) = 3
  /\ popped[1] = calls[1] /\ popped[2] = calls[2]
  /\ calls[1].time = calls[2].time
  /\ events[1].type = "free" /\ events[2].type = "free"
  /\ events[1].time = events[2].time
  /\ events[1].amb_id = 0 /\ events[2].amb_id = 1
  /\ events[3] = calls[3]

\* C16: when a replication starts, whatever the replications before it did,
\* every ambulance is flagged available and stands at its home base, the
\* counter is the fleet size, the lost-call counter is 0, there is no sample,
\* and the queue holds the call events of this replication's stream and
\* nothing else.
C16_FreshReplication ==
  (pc = "while" /\ popped = <<>>)
    => /\ Len(ambulances) = AMBULANCE_NUMBER
       /\ \A i \in DOMAIN ambulances :
            /\ ambulances[i].id = i - 1
            /\ ambulances[i].availability = 1
            /\ ambulances[i].pos = station_pos[home_station[i] + 1]
       /\ current_state = AMBULANCE_NUMBER
       /\ lost = 0
       /\ travel_times = <<>>
       /\ events = calls
       /\ \A i \in DOMAIN events : events[i].type = "call"

\* the second replication starts fresh after a first one that lost calls,
\* recorded samples and left its ambulance away from the home base
C16_Witness ==
  /\ pc = "while" /\ popped = <<>> /\ rep = 2
  /\ Len(medians) = 1 /\ medians[1] # 99900 /\ losts[1] > 0
  /\ ambulances[1].pos = "S3" /\ current_state = 1
  /\ lost = 0 /\ travel_times = <<>>

\* C17: in every state an ambulance is busy exactly when one Free event
\* naming it is pending, an available ambulance has none, and the number of
\* pending Free events is the fleet size minus the counter.
C17_FreeEventsMatchBusy ==
  /\ \A i \in DOMAIN ambulances :
       Cardinality({k \in DOMAIN events :
                      events[k].type = "free" /\ events[k].amb_id = ambulances[i].id})
         = IF ambulances[i].availability = 0 THEN 1 ELSE 0
  /\ \A k \in DOMAIN events :
       events[k].type = "free" => events[k].amb_id + 1 \in DOMAIN ambulances
  /\ count(events, "free") = Len(ambulances) - current_state

\* both ambulances are out, the counter is 0 and two completions are pending,
\* one for each
C17_Witness ==
  /\ pc = "while" /\ AMBULANCE_NUMBER = 2 /\ current_state = 0
  /\ flagged = {}
  /\ \E j, k \in DOMAIN events :
       /\ events[j].type = "free" /\ events[j].amb_id = 0
       /\ events[k].type = "free" /\ events[k].amb_id = 1

\* C18: every ambulance sent out becomes available again: a run does not
\* stop while an ambulance is busy, and once the queue is empty every
\* ambulance is flagged available and the counter is the fleet size.
C18_AllAvailableAtEnd ==
  rep >= 1
    => /\ pc # "while" => flagged = DOMAIN ambulances
       /\ events = <<>>
            => flagged = DOMAIN ambulances /\ current_state = Len(ambulances)

\* C19: when a completion makes the reposition test the incremented counter
\* is at least 1; so with th <= 1 the step only flags the ambulance available,
\* exactly as with th = 0, and with a non-empty policy a reposition consults
\* an entry of index at least 1, never the empty entry 0.
C19_CounterAtLeastOne ==
  [][FreeNext
       => LET a    == Head(events).amb_id + 1
              cs   == current_state'
              last == Len(reposition_table) - 1
              idx  == IF cs < last THEN cs ELSE last
          IN  /\ cs = current_state + 1 /\ cs >= 1
              /\ th <= 1
                   => /\ ambulances' = [ambulances EXCEPT ![a].availability = 1]
                      /\ pc' = "while"
              /\ (cs < th /\ primary_list # <<>>)
                   => idx >= 1 /\ reposition_table[idx + 1] # <<>>]_vars

\* th = 1 and policy [1, 2]: an ambulance was freed while the other is still
\* out (counter 1) and it stays at its call site
C19_Witness ==
  /\ pc = "while" /\ th = 1 /\ primary_list = <<1, 2>> /\ AMBULANCE_NUMBER = 2
  /\ e.type = "free" /\ current_state = 1
  /\ ambulances[amb + 1].availability = 1
  /\ ambulances[amb + 1].pos \in CallSites

====
